---- MODULE Spec2Model ----
(***************************************************************************)
(* A model of the CoinGecko API client (src/src/index.js): the endpoint    *)
(* catalog, the request builder (_buildRequestOptions) and the transport   *)
(* executor (_request).                                                    *)
(*                                                                         *)
(* Text is modelled as a sequence of one-character strings, so that        *)
(* concatenation, prefix tests, percent-encoding and JSON parsing are      *)
(* computed character by character.                                        *)
(***************************************************************************)
EXTENDS Integers, Sequences, FiniteSets, TLC

VARIABLES apiKey,    \* client -> this._apiKey
          TIMEOUT,   \* the static property CoinGecko.TIMEOUT
          heap,      \* the caller's parameter objects, by reference
          calls,     \* one record per invocation of _request, in call order
          thrown     \* one record per endpoint call that threw, in order

vars == <<apiKey, TIMEOUT, heap, calls, thrown>>

(***************************************************************************)
(* Bounds of the model.                                                    *)
(***************************************************************************)
MaxCalls == 2      \* calls per behaviour of SpecBuild and SpecConcurrent
MaxChunks == 2     \* 'data' events per response

(***************************************************************************)
(* Text constants.                                                         *)
(***************************************************************************)
HOST == <<"a","p","i",".","c","o","i","n","g","e","c","k","o",".","c","o","m">>
PRO_HOST == <<"p","r","o","-">> \o HOST
API_VERSION == <<"3">>
DEFAULT_TIMEOUT == 30000
ApiKeyParam == <<"x","_","c","g","_","p","r","o","_","a","p","i","_","k","e","y">>
Usd == <<"u","s","d">>
Eur == <<"e","u","r">>
VsCurrency == <<"v","s","_","c","u","r","r","e","n","c","y">>
Ids == <<"i","d","s">>
Page == <<"p","a","g","e">>
Days == <<"d","a","y","s">>
Date == <<"d","a","t","e">>
From == <<"f","r","o","m">>
To == <<"t","o">>
Max == <<"m","a","x">>
Bitcoin == <<"b","t","c">>
Ethereum == <<"e","t","h">>
EthereumPlatform == <<"e","t","h","e","r","e","u","m">>
Key1 == <<"k","1">>
VsCurrencies == <<"v","s","_","c","u","r","r","e","n","c","i","e","s">>
ExchangeIds == <<"e","x","c","h","a","n","g","e","_","i","d","s">>
CoinIds == <<"c","o","i","n","_","i","d","s">>
ContractAddresses == <<"c","o","n","t","r","a","c","t","_","a","d","d","r","e","s","s","e","s">>
Binance == <<"b","n","b">>
Kraken == <<"k","r","k">>
Token1 == <<"0","x","a">>
Token2 == <<"0","x","b">>

(***************************************************************************)
(* Text helpers.                                                           *)
(***************************************************************************)
StartsWith(s, p) == Len(s) >= Len(p) /\ SubSeq(s, 1, Len(p)) = p

RECURSIVE Flatten(_)
Flatten(ss) == IF ss = << >> THEN << >> ELSE Head(ss) \o Flatten(Tail(ss))

\* Array.prototype.join: the elements separated by sep.
RECURSIVE Join(_, _)
Join(ss, sep) ==
  IF ss = << >> THEN << >>
  ELSE IF Len(ss) = 1 THEN Head(ss)
  ELSE Head(ss) \o sep \o Join(Tail(ss), sep)

\* The index of the first occurrence of character c in s, or 0.
RECURSIVE IndexFrom(_, _, _)
IndexFrom(s, c, i) ==
  IF i > Len(s) THEN 0
  ELSE IF s[i] = c THEN i
  ELSE IndexFrom(s, c, i + 1)

IndexOf(s, c) == IndexFrom(s, c, 1)

\* s split at every occurrence of character c.
RECURSIVE Split(_, _)
Split(s, c) ==
  LET i == IndexOf(s, c)
  IN  IF i = 0 THEN <<s>>
      ELSE <<SubSeq(s, 1, i - 1)>> \o Split(SubSeq(s, i + 1, Len(s)), c)

Digit(d) == CASE d = 0 -> "0" [] d = 1 -> "1" [] d = 2 -> "2" [] d = 3 -> "3"
              [] d = 4 -> "4" [] d = 5 -> "5" [] d = 6 -> "6" [] d = 7 -> "7"
              [] d = 8 -> "8" [] d = 9 -> "9"

\* String(n) for a non-negative integer.
RECURSIVE NumberToString(_)
NumberToString(n) ==
  IF n < 10 THEN <<Digit(n)>>
  ELSE NumberToString(n \div 10) \o <<Digit(n % 10)>>

(***************************************************************************)
(* JavaScript values.                                                      *)
(* An object is a sequence of [k, v] entries in insertion order.  A value  *)
(* of type "obj" carries the reference of the heap object it denotes       *)
(* (ref = 0 for an object literal created by a default parameter) and its  *)
(* current content.                                                        *)
(***************************************************************************)
Undefined == [t |-> "undefined"]
Null == [t |-> "null"]
Str(s) == [t |-> "str", v |-> s]
Num(n) == [t |-> "num", v |-> n]
Arr(a) == [t |-> "arr", v |-> a]
Obj(r, m) == [t |-> "obj", ref |-> r, m |-> m]

HasKey(m, k) == \E i \in DOMAIN m : m[i].k = k

\* m[k]
Get(m, k) ==
  IF HasKey(m, k) THEN m[CHOOSE i \in DOMAIN m : m[i].k = k].v ELSE Undefined

\* m[k] = v: an existing entry keeps its place, a new one goes last.
Set(m, k, v) ==
  IF HasKey(m, k)
  THEN [i \in DOMAIN m |-> IF m[i].k = k THEN [k |-> k, v |-> v] ELSE m[i]]
  ELSE Append(m, [k |-> k, v |-> v])

(***************************************************************************)
(* helpers/utilities: the type predicates.                                 *)
(***************************************************************************)
isString(x) == x.t = "str"
isStringEmpty(x) ==
  \/ x.t \in {"undefined", "null"}
  \/ x.t = "str" /\ \A i \in DOMAIN x.v : x.v[i] = " "
isArray(x) == x.t = "arr"
isObject(x) == x.t = "obj"
isNumber(x) == x.t = "num"

\* Utils._WARN_(title, detail): writes one diagnostic line and returns; it
\* never throws.  The line is recorded in the trace of the call.
_WARN_(title) == <<"warn:" \o title>>

(***************************************************************************)
(* querystring.stringify.                                                  *)
(***************************************************************************)
\* querystring.escape of one character: A-Z a-z 0-9 - _ . ! ~ * ' ( ) stay.
EscapeChar(c) ==
  CASE c = "," -> <<"%","2","C">>
    [] c = "&" -> <<"%","2","6">>
    [] c = "=" -> <<"%","3","D">>
    [] c = "?" -> <<"%","3","F">>
    [] c = "/" -> <<"%","2","F">>
    [] c = " " -> <<"%","2","0">>
    [] OTHER -> <<c>>

Escape(s) == Flatten([i \in DOMAIN s |-> EscapeChar(s[i])])

\* The code unit U+D800, a surrogate, as one character of a text.
Surrogate == "uD800"

\* querystring's encoder throws URIError ('URI malformed') for a string
\* whose last code unit is a surrogate: it has no second half to pair with.
EscapeThrows(s) == Len(s) > 0 /\ s[Len(s)] = Surrogate

\* stringifyPrimitive: strings as they are, finite numbers by String(), the
\* rest as the empty string.
StringifyPrimitive(x) ==
  CASE x.t = "str" -> x.v
    [] x.t = "num" -> NumberToString(x.v)
    [] OTHER -> << >>

\* One entry: k=v, or k=v1&k=v2... for an array value.
StringifyEntry(e) ==
  IF e.v.t = "arr"
  THEN Join([i \in DOMAIN e.v.v |->
               Escape(e.k) \o <<"=">> \o Escape(StringifyPrimitive(e.v.v[i]))],
            <<"&">>)
  ELSE Escape(e.k) \o <<"=">> \o Escape(StringifyPrimitive(e.v))

\* An array value with no element contributes nothing, not even a separator.
Stringify(m) ==
  Join(SelectSeq([i \in DOMAIN m |-> StringifyEntry(m[i])],
                 LAMBDA s : s # << >>),
       <<"&">>)

\* querystring.stringify(m) throws, as one of its names or values does.
StringifyThrows(m) ==
  \E i \in DOMAIN m :
    \/ EscapeThrows(m[i].k)
    \/ IF m[i].v.t = "arr"
       THEN \E j \in DOMAIN m[i].v.v :
              EscapeThrows(StringifyPrimitive(m[i].v.v[j]))
       ELSE EscapeThrows(StringifyPrimitive(m[i].v))

(***************************************************************************)
(* The request builder.                                                    *)
(***************************************************************************)
Clients == {"free", "pro"}

_shouldCallPro(c) == apiKey[c].t # "null"

\* An insertion that adds an entry each time, whether or not there is one.
_insertApiKeyIntoParamsAppending(c, params) ==
  IF isObject(params) /\ _shouldCallPro(c)
  THEN Obj(params.ref, Append(params.m, [k |-> ApiKeyParam, v |-> apiKey[c]]))
  ELSE params

\* An insertion that does not ask whether the client has a key.
_insertApiKeyIntoParamsAlways(c, params) ==
  IF isObject(params)
  THEN Obj(params.ref, Set(params.m, ApiKeyParam, apiKey[c]))
  ELSE params

_insertApiKeyIntoParams(c, params) ==
  IF isObject(params) /\ _shouldCallPro(c)
  THEN Obj(params.ref, Set(params.m, ApiKeyParam, apiKey[c]))
  ELSE params

\* A host that is the public one whatever the key.
_resolveHostPublic(c) == HOST

_resolveHost(c) == IF _shouldCallPro(c) THEN PRO_HOST ELSE HOST

\* The query text, or Undefined when params is not an object.
\* A builder that turns a missing mapping into the empty query string.
\* A builder that hands every params it is given to the encoder.
QueryOfAnything(params) ==
  CASE isObject(params) -> Str(Stringify(params.m))
    [] params.t = "undefined" -> Undefined
    [] OTHER -> Str(<< >>)

QueryOfEmptyText(params) ==
  IF isObject(params) THEN Str(Stringify(params.m)) ELSE Str(<< >>)

QueryOf(params) ==
  IF isObject(params) THEN Str(Stringify(params.m)) ELSE Undefined

VersionPrefix == <<"/","a","p","i","/","v">> \o API_VERSION

\* _buildRequestOptions throws what querystring.stringify throws: nothing
\* in it catches.
BuildThrows(c, params0) ==
  LET params == _insertApiKeyIntoParams(c, params0)
  IN  isObject(params) /\ StringifyThrows(params.m)

_buildRequestOptions(c, path, params0) ==
  LET params == _insertApiKeyIntoParams(c, params0)
      q == QueryOf(params)
  IN  [ path |-> IF q.t = "undefined"
                 THEN VersionPrefix \o path
                 ELSE VersionPrefix \o path \o <<"?">> \o q.v,
        method |-> "GET",
        host |-> _resolveHost(c),
        port |-> 443,
        timeout |-> TIMEOUT ]

(***************************************************************************)
(* The endpoint catalog.  An endpoint yields the relative path and, as a   *)
(* frame, the params value it hands to _request, the warnings it logged    *)
(* on the way and whether it threw before it got there.                    *)
(***************************************************************************)
NoParamOps == {"ping", "global", "coins.list", "exchanges.all"}
ParamOps == {"coins.all", "coins.markets"}
Ops == NoParamOps \cup ParamOps

\* Endpoints that take an identifier and no params.
IdOps == {"exchanges.fetch"}
\* Endpoints that take an identifier and params.
IdParamOps == {"coins.fetch", "coins.fetchTickers", "exchanges.fetchTickers",
               "simple.fetchTokenPrice", "coins.fetchHistory",
               "exchanges.fetchVolumeChart", "derivatives.fetchExchange"}
\* Endpoints that hand their params to _request as they got them.
PassOps == {"coins.all", "indexes.all", "assetPlatforms.all"}
\* Endpoints that take two identifiers, without and with params.
PairOps == {"coins.fetchCoinContractInfo", "indexes.fetch"}
ChartOps == {"coins.fetchMarketChart", "coins.fetchMarketChartRange"}
ContractChartOps == {"coins.fetchCoinContractMarketChart",
                     "coins.fetchCoinContractMarketChartRange"}
Catalog ==
  Ops \cup PassOps \cup IdOps \cup IdParamOps \cup {"simple.price"}
    \cup PairOps \cup ChartOps \cup ContractChartOps

\* The arguments an endpoint declares.
TakesId(op) ==
  op \in IdOps \cup IdParamOps \cup PairOps \cup ChartOps \cup ContractChartOps
TakesId2(op) == op \in PairOps \cup ContractChartOps
TakesParams(op) == op \notin NoParamOps \cup IdOps \cup PairOps

\* A template literal's `${x}`: String(x).
\* A template that percent-encodes what it interpolates.
ToTextEscaped(x) ==
  CASE x.t = "str" -> Escape(x.v)
    [] x.t = "num" -> NumberToString(x.v)
    [] x.t = "null" -> <<"n","u","l","l">>
    [] OTHER -> <<"u","n","d","e","f","i","n","e","d">>

ToText(x) ==
  CASE x.t = "str" -> x.v
    [] x.t = "num" -> NumberToString(x.v)
    [] x.t = "null" -> <<"n","u","l","l">>
    [] OTHER -> <<"u","n","d","e","f","i","n","e","d">>

\* A default parameter (params = {}) replaces undefined by a new object.
DefaultParams(arg) == IF arg.t = "undefined" THEN Obj(0, << >>) ELSE arg

\* assetPlatform = 'ethereum'
DefaultPlatform(id) == IF id.t = "undefined" THEN Str(EthereumPlatform) ELSE id

OpPath(op, id, id2) ==
  CASE op = "ping" -> <<"/","p","i","n","g">>
    [] op = "global" -> <<"/","g","l","o","b","a","l">>
    [] op = "coins.list" -> <<"/","c","o","i","n","s","/","l","i","s","t">>
    [] op = "exchanges.all" -> <<"/","e","x","c","h","a","n","g","e","s">>
    [] op = "coins.all" -> <<"/","c","o","i","n","s">>
    [] op = "coins.markets" -> <<"/","c","o","i","n","s","/","m","a","r","k","e","t","s">>
    [] op = "indexes.all" -> <<"/","i","n","d","e","x","e","s">>
    [] op = "assetPlatforms.all" -> <<"/","a","s","s","e","t","_","p","l","a","t","f","o","r","m","s">>
    [] op = "coins.fetch" -> <<"/","c","o","i","n","s","/">> \o ToText(id)
    [] op = "coins.fetchTickers" -> <<"/","c","o","i","n","s","/">> \o ToText(id) \o <<"/","t","i","c","k","e","r","s">>
    [] op = "exchanges.fetch" -> <<"/","e","x","c","h","a","n","g","e","s","/">> \o ToText(id)
    [] op = "exchanges.fetchTickers" -> <<"/","e","x","c","h","a","n","g","e","s","/">> \o ToText(id) \o <<"/","t","i","c","k","e","r","s">>
    [] op = "coins.fetchHistory" -> <<"/","c","o","i","n","s","/">> \o ToText(id) \o <<"/","h","i","s","t","o","r","y">>
    [] op = "exchanges.fetchVolumeChart" ->
         <<"/","e","x","c","h","a","n","g","e","s","/">> \o ToText(id) \o <<"/","v","o","l","u","m","e","_","c","h","a","r","t">>
    [] op = "derivatives.fetchExchange" ->
         <<"/","d","e","r","i","v","a","t","i","v","e","s","/","e","x","c","h","a","n","g","e","s","/">> \o ToText(id)
    [] op = "coins.fetchMarketChart" -> <<"/","c","o","i","n","s","/">> \o ToText(id) \o <<"/","m","a","r","k","e","t","_","c","h","a","r","t">>
    [] op = "coins.fetchMarketChartRange" ->
         <<"/","c","o","i","n","s","/">> \o ToText(id) \o <<"/","m","a","r","k","e","t","_","c","h","a","r","t">> \o <<"/","r","a","n","g","e">>
    [] op = "coins.fetchCoinContractInfo" ->
         <<"/","c","o","i","n","s","/">> \o ToText(DefaultPlatform(id2)) \o <<"/","c","o","n","t","r","a","c","t","/">> \o ToText(id)
    [] op = "coins.fetchCoinContractMarketChart" ->
         <<"/","c","o","i","n","s","/">> \o ToText(DefaultPlatform(id2)) \o <<"/","c","o","n","t","r","a","c","t","/">> \o ToText(id)
           \o <<"/","m","a","r","k","e","t","_","c","h","a","r","t">>
    [] op = "coins.fetchCoinContractMarketChartRange" ->
         <<"/","c","o","i","n","s","/">> \o ToText(DefaultPlatform(id2)) \o <<"/","c","o","n","t","r","a","c","t","/">> \o ToText(id)
           \o <<"/","m","a","r","k","e","t","_","c","h","a","r","t">> \o <<"/","r","a","n","g","e">>
    [] op = "indexes.fetch" -> <<"/","i","n","d","e","x","e","s","/">> \o ToText(id) \o <<"/">> \o ToText(id2)
    [] op = "simple.price" -> <<"/","s","i","m","p","l","e","/","p","r","i","c","e">>
    [] op = "simple.fetchTokenPrice" ->
         <<"/","s","i","m","p","l","e","/","t","o","k","e","n","_","p","r","i","c","e","/">> \o ToText(DefaultPlatform(id))

\* Array.prototype.join(',') of an array of strings.
JoinArray(a) == Str(Join([i \in DOMAIN a.v |-> StringifyPrimitive(a.v[i])], <<",">>))

\* What an endpoint has done so far: params as it stands, the warnings
\* logged, and whether a TypeError ended it.
Frame(p) == [p |-> p, warns |-> << >>, threw |-> FALSE]
Warn(f, title) == [f EXCEPT !.warns = @ \o _WARN_(title)]
Throw(f) == [f EXCEPT !.threw = TRUE]

\* params[k]: a property of a primitive is undefined.
Prop(p, k) == IF isObject(p) THEN Get(p.m, k) ELSE Undefined

\* params.k = v: in strict mode a TypeError unless params is an object.
Assign(f, k, v) ==
  IF isObject(f.p)
  THEN [f EXCEPT !.p = Obj(f.p.ref, Set(f.p.m, k, v))]
  ELSE Throw(f)

\* A statement that reads params[k]: skipped once the endpoint has thrown,
\* and itself a TypeError when params is null.
Reading(f, after) ==
  IF f.threw THEN f ELSE IF f.p.t = "null" THEN Throw(f) ELSE after

\* !x
Falsy(x) ==
  \/ x.t \in {"undefined", "null"}
  \/ x.t = "str" /\ x.v = << >>
  \/ x.t = "num" /\ x.v = 0

\* if (!Utils.isObject(params)) Utils._WARN_('Invalid parameter', ...)
MustBeObject(f) ==
  IF ~isObject(f.p) THEN Warn(f, "Invalid parameter") ELSE f

\* if (!Utils.isString(id) || Utils.isStringEmpty(id)) Utils._WARN_(...)
MustBeIdentifier(f, id) ==
  IF ~isString(id) \/ isStringEmpty(id) THEN Warn(f, "Invalid parameter") ELSE f

\* A default that overwrites whatever the caller gave.
DefaultCurrencyAlways(f, k) == Reading(f, Assign(f, k, Str(Usd)))

\* A default that is applied to a missing field only.
DefaultCurrencyIfMissing(f, k) ==
  Reading(f, IF Prop(f.p, k).t = "undefined"
             THEN Assign(f, k, Str(Usd))
             ELSE f)

\* if (!Utils.isString(params[k]) || Utils.isStringEmpty(params[k]))
\*   params.k = 'usd'
DefaultCurrency(f, k) ==
  Reading(f, IF ~isString(Prop(f.p, k)) \/ isStringEmpty(Prop(f.p, k))
             THEN Assign(f, k, Str(Usd))
             ELSE f)

\* An endpoint that leaves a list as it got it.
JoinFieldSkipped(f, k) == Reading(f, f)

\* if (Utils.isArray(params[k])) params.k = params.k.join(',')
JoinField(f, k) ==
  Reading(f, IF isArray(Prop(f.p, k))
             THEN Assign(f, k, JoinArray(Prop(f.p, k)))
             ELSE f)

\* if (!Utils.isString(params[k]) || Utils.isStringEmpty(params[k]))
\*   Utils._WARN_('Invalid parameter', ...)
MustHaveString(f, k) ==
  Reading(f, IF ~isString(Prop(f.p, k)) \/ isStringEmpty(Prop(f.p, k))
             THEN Warn(f, "Invalid parameter")
             ELSE f)

\* if (!params[k]) Utils._WARN_('Missing parameter', ...)
MustHave(f, k) ==
  Reading(f, IF Falsy(Prop(f.p, k)) THEN Warn(f, "Missing parameter") ELSE f)

\* A days default applied to every falsy value, 0 included.
DefaultDaysIfFalsy(f) ==
  Reading(f, IF Falsy(Prop(f.p, Days)) THEN Assign(f, Days, Num(1)) ELSE f)

\* if (params['days'] == undefined) params.days = 1
DefaultDays(f) ==
  Reading(f, IF Prop(f.p, Days).t \in {"undefined", "null"}
             THEN Assign(f, Days, Num(1))
             ELSE f)

\* if (!Utils.isNumber(params[k])) Utils._WARN_('Missing parameter', ...)
MustHaveNumber(f, k) ==
  Reading(f, IF ~isNumber(Prop(f.p, k)) THEN Warn(f, "Missing parameter") ELSE f)

coins_markets(arg) ==
  LET f1 == MustBeObject(Frame(DefaultParams(arg)))
      f2 == DefaultCurrency(f1, VsCurrency)
  IN  JoinField(f2, Ids)

coins_fetch(id, arg) == MustBeIdentifier(Frame(DefaultParams(arg)), id)

coins_fetchTickers(id, arg) ==
  JoinField(MustBeIdentifier(Frame(DefaultParams(arg)), id), ExchangeIds)

exchanges_fetch(id) == MustBeIdentifier(Frame(Undefined), id)

exchanges_fetchTickers(id, arg) ==
  JoinField(MustBeIdentifier(Frame(DefaultParams(arg)), id), CoinIds)

simple_price(arg) ==
  LET f1 == MustBeObject(Frame(DefaultParams(arg)))
      f2 == JoinField(f1, VsCurrencies)
      f3 == DefaultCurrency(f2, VsCurrencies)
      f4 == JoinField(f3, Ids)
  IN  MustHaveString(f4, Ids)

simple_fetchTokenPrice(arg, assetPlatform) ==
  LET f1 == MustBeObject(Frame(DefaultParams(arg)))
      f2 == MustBeIdentifier(f1, DefaultPlatform(assetPlatform))
      f3 == MustHave(f2, ContractAddresses)
      f4 == MustHave(f3, VsCurrencies)
      f5 == JoinField(f4, ContractAddresses)
  IN  JoinField(f5, VsCurrencies)

\* if (!Utils.isString(params['date']) || Utils.isStringEmpty(params['date']))
\*   Utils._WARN_('Missing parameter', ...)
coins_fetchHistory(coinId, arg) ==
  LET f1 == MustBeIdentifier(Frame(DefaultParams(arg)), coinId)
      f2 == MustBeObject(f1)
  IN  Reading(f2, IF ~isString(Prop(f2.p, Date)) \/ isStringEmpty(Prop(f2.p, Date))
                  THEN Warn(f2, "Missing parameter")
                  ELSE f2)

exchanges_fetchVolumeChart(exchangeId, arg) ==
  MustBeIdentifier(Frame(DefaultParams(arg)), exchangeId)

derivatives_fetchExchange(exchangeId, arg) ==
  MustBeIdentifier(Frame(DefaultParams(arg)), exchangeId)

coins_fetchMarketChart(coinId, arg) ==
  LET f1 == MustBeIdentifier(Frame(DefaultParams(arg)), coinId)
      f2 == MustBeObject(f1)
      f3 == DefaultCurrency(f2, VsCurrency)
  IN  DefaultDays(f3)

coins_fetchMarketChartRange(coinId, arg) ==
  LET f1 == MustBeIdentifier(Frame(DefaultParams(arg)), coinId)
      f2 == MustBeObject(f1)
      f3 == DefaultCurrency(f2, VsCurrency)
      f4 == MustHaveNumber(f3, From)
  IN  MustHaveNumber(f4, To)

coins_fetchCoinContractInfo(contractAddress, assetPlatform) ==
  MustBeIdentifier(MustBeIdentifier(Frame(Undefined), contractAddress),
                   DefaultPlatform(assetPlatform))

coins_fetchCoinContractMarketChart(contractAddress, assetPlatform, arg) ==
  LET f1 == MustBeIdentifier(Frame(DefaultParams(arg)), contractAddress)
      f2 == MustBeIdentifier(f1, DefaultPlatform(assetPlatform))
      f3 == MustBeObject(f2)
      f4 == DefaultCurrency(f3, VsCurrency)
  IN  DefaultDays(f4)

coins_fetchCoinContractMarketChartRange(contractAddress, assetPlatform, arg) ==
  LET f1 == MustBeIdentifier(Frame(DefaultParams(arg)), contractAddress)
      f2 == MustBeIdentifier(f1, DefaultPlatform(assetPlatform))
      f3 == MustBeObject(f2)
      f4 == DefaultCurrency(f3, VsCurrency)
  IN  DefaultDays(f4)

indexes_fetch(marketId, indexId) ==
  MustBeIdentifier(MustBeIdentifier(Frame(Undefined), marketId), indexId)

\* The endpoint's frame when it returns this._request(path, params).
Endpoint(op, id, id2, arg) ==
  CASE op \in NoParamOps -> Frame(Undefined)
    [] op \in PassOps -> Frame(DefaultParams(arg))
    [] op = "coins.markets" -> coins_markets(arg)
    [] op = "coins.fetch" -> coins_fetch(id, arg)
    [] op = "coins.fetchTickers" -> coins_fetchTickers(id, arg)
    [] op = "exchanges.fetch" -> exchanges_fetch(id)
    [] op = "exchanges.fetchTickers" -> exchanges_fetchTickers(id, arg)
    [] op = "simple.price" -> simple_price(arg)
    [] op = "coins.fetchHistory" -> coins_fetchHistory(id, arg)
    [] op = "exchanges.fetchVolumeChart" -> exchanges_fetchVolumeChart(id, arg)
    [] op = "derivatives.fetchExchange" -> derivatives_fetchExchange(id, arg)
    [] op = "coins.fetchMarketChart" -> coins_fetchMarketChart(id, arg)
    [] op = "coins.fetchMarketChartRange" -> coins_fetchMarketChartRange(id, arg)
    [] op = "coins.fetchCoinContractInfo" -> coins_fetchCoinContractInfo(id, id2)
    [] op = "coins.fetchCoinContractMarketChart" ->
         coins_fetchCoinContractMarketChart(id, id2, arg)
    [] op = "coins.fetchCoinContractMarketChartRange" ->
         coins_fetchCoinContractMarketChartRange(id, id2, arg)
    [] op = "indexes.fetch" -> indexes_fetch(id, id2)
    [] op = "simple.fetchTokenPrice" -> simple_fetchTokenPrice(arg, id)

(***************************************************************************)
(* The caller's side: parameter objects on the heap, and the arguments a   *)
(* call can be given (nothing, or a reference to a heap object).           *)
(***************************************************************************)
ObjIds == {1}
Ref(i) == [t |-> "ref", id |-> i]
Args == {Undefined} \cup {Ref(i) : i \in ObjIds}
Deref(arg) == IF arg.t = "ref" THEN Obj(arg.id, heap[arg.id]) ELSE arg

InitMappings ==
  { << >>,
    << [k |-> Ids, v |-> Arr(<<Str(Bitcoin), Str(Ethereum)>>)] >>,
    << [k |-> VsCurrency, v |-> Str(Eur)], [k |-> Page, v |-> Num(2)] >> }

\* The inputs of the catalog specification: identifiers (an exchange, a
\* text holding '?', the empty text, none), arguments (none, an object,
\* null, a string) and the mappings the object can hold.
Identifiers == {Str(Binance), Str(<<"a","?","b">>), Str(<< >>), Undefined}
\* Second identifiers: none, an exchange, texts holding '/' and '&'.
Identifiers2 == {Undefined, Str(Binance), Str(<<"x","/","y">>), Str(<<"a","&","b">>)}
CatalogArgs == Args \cup {Null, Str(Usd), Num(5)}

BothCoins == Arr(<<Str(Bitcoin), Str(Ethereum)>>)

CatalogMappings ==
  InitMappings \cup
  { << [k |-> Ids, v |-> Arr(<<Str(Bitcoin)>>)] >>,
    << [k |-> Ids, v |-> Str(Bitcoin)] >>,
    << [k |-> Ids, v |-> Arr(<< >>)] >>,
    << [k |-> VsCurrencies, v |-> Arr(<<Str(Eur), Str(Usd)>>)],
       [k |-> Ids, v |-> BothCoins] >>,
    << [k |-> ExchangeIds, v |-> Arr(<<Str(Binance), Str(Kraken)>>)],
       [k |-> CoinIds, v |-> BothCoins],
       [k |-> Page, v |-> Num(2)] >>,
    << [k |-> ContractAddresses, v |-> Arr(<<Str(Token1), Str(Token2)>>)],
       [k |-> VsCurrencies, v |-> Arr(<<Str(Usd), Str(Eur)>>)] >>,
    << [k |-> ContractAddresses, v |-> Arr(<< >>)],
       [k |-> VsCurrencies, v |-> Str(Eur)] >> }
  \cup
  { << [k |-> VsCurrency, v |-> x] >> :
      x \in {Str(<< >>), Str(<<" ">>), Num(5), Null} }
  \cup
  { << [k |-> Days, v |-> x], [k |-> Page, v |-> Num(2)] >> :
      x \in {Null, Num(0), Num(14), Str(Max), Str(<< >>)} }
  \cup
  { << [k |-> VsCurrency, v |-> Str(Eur)],
       [k |-> From, v |-> Num(1)], [k |-> To, v |-> Num(2)] >>,
    << [k |-> From, v |-> Str(<<"1">>)] >>,
    << [k |-> VsCurrencies, v |-> Str(Eur)],
       [k |-> ContractAddresses, v |-> Str(Token1)] >>,
    << [k |-> Page, v |-> Num(2)],
       [k |-> ApiKeyParam, v |-> Str(<<"k","0">>)] >>,
    << [k |-> Ids, v |-> Str(<<Surrogate>>)] >> }
  \cup
  { << [k |-> Ids, v |-> BothCoins], [k |-> VsCurrencies, v |-> x] >> :
      x \in {Str(<< >>), Str(<<" ">>), Num(5), Null, Arr(<< >>), Str(Eur)} }

Keys == {Key1}
Timeouts == {DEFAULT_TIMEOUT, 5000}

\* The heap after a call that left params as p.
WriteBack(p) ==
  IF isObject(p) /\ p.ref \in ObjIds THEN [heap EXCEPT ![p.ref] = p.m] ELSE heap

(***************************************************************************)
(* JSON.parse, on the texts a response body can hold here: white space,    *)
(* numbers written with digits only, and arrays.  Every other character    *)
(* is a syntax error where it stands.  The result is [ok, v, pos]: the     *)
(* value and the position after it, or the position of the error.          *)
(***************************************************************************)
Digits == {"0", "1", "2", "3", "4", "5", "6", "7", "8", "9"}
DigitValue(c) == CHOOSE d \in 0..9 : Digit(d) = c

Parsed(v, next) == [ok |-> TRUE, v |-> v, pos |-> next]
SyntaxErrorAt(i) == [ok |-> FALSE, v |-> Undefined, pos |-> i]

RECURSIVE SkipWhitespace(_, _)
SkipWhitespace(s, i) ==
  IF i <= Len(s) /\ s[i] = " " THEN SkipWhitespace(s, i + 1) ELSE i

\* The position after the last digit of the digit run starting at i.
RECURSIVE DigitsEnd(_, _)
DigitsEnd(s, i) ==
  IF i <= Len(s) /\ s[i] \in Digits THEN DigitsEnd(s, i + 1) ELSE i

RECURSIVE DigitsValue(_)
DigitsValue(ds) ==
  IF ds = << >> THEN 0
  ELSE 10 * DigitsValue(SubSeq(ds, 1, Len(ds) - 1)) + DigitValue(ds[Len(ds)])

\* A number: a single 0, or a run of digits not starting with 0.
ParseNumber(s, i) ==
  LET j == IF s[i] = "0" THEN i + 1 ELSE DigitsEnd(s, i)
  IN  Parsed(Num(DigitsValue(SubSeq(s, i, j - 1))), j)

RECURSIVE ParseValue(_, _)
RECURSIVE ParseElements(_, _, _)

ParseValue(s, i0) ==
  LET i == SkipWhitespace(s, i0)
  IN  IF i > Len(s) THEN SyntaxErrorAt(i)
      ELSE IF s[i] \in Digits THEN ParseNumber(s, i)
      ELSE IF s[i] = "["
           THEN LET j == SkipWhitespace(s, i + 1)
                IN  IF j > Len(s) THEN SyntaxErrorAt(j)
                    ELSE IF s[j] = "]" THEN Parsed(Arr(<< >>), j + 1)
                    ELSE ParseElements(s, j, << >>)
      ELSE SyntaxErrorAt(i)

\* The elements of an array from position j on, acc being those before.
ParseElements(s, j, acc) ==
  LET r == ParseValue(s, j)
      k == SkipWhitespace(s, r.pos)
  IN  IF ~r.ok THEN r
      ELSE IF k > Len(s) THEN SyntaxErrorAt(k)
      ELSE IF s[k] = "," THEN ParseElements(s, k + 1, Append(acc, r.v))
      ELSE IF s[k] = "]" THEN Parsed(Arr(Append(acc, r.v)), k + 1)
      ELSE SyntaxErrorAt(k)

JSONParse(s) ==
  LET r == ParseValue(s, 1)
      k == SkipWhitespace(s, r.pos)
  IN  IF ~r.ok THEN r
      ELSE IF k <= Len(s) THEN SyntaxErrorAt(k)
      ELSE r

(***************************************************************************)
(* The transport executor, _request.                                       *)
(* A call record holds the options handed to https.request, the state of   *)
(* the response (res, body), the promise returned to the caller, and       *)
(* trace: the effects of the call in the order they happened.  wire is     *)
(* the text the server has sent so far.                                    *)
(***************************************************************************)
NoResponse == [statusCode |-> 0, statusMessage |-> "none"]

\* The status lines a server answers with.
Responses ==
  { [statusCode |-> 199, statusMessage |-> "Early"],
    [statusCode |-> 200, statusMessage |-> "OK"],
    [statusCode |-> 299, statusMessage |-> "OK"],
    [statusCode |-> 300, statusMessage |-> "Multiple Choices"] }

Throttled == <<"T","h","r","o","t","t","l","e","d">>
Doctype == <<"<","!","D","O","C","T","Y","P","E"," ","h","t","m","l",">">>

\* The chunks a 'data' event can deliver.
Chunks ==
  { <<"1">>, <<"[">>, <<"]">>, <<"[","1",",">>, <<" ","1","]">>,
    SubSeq(Throttled, 1, 5), SubSeq(Throttled, 6, 9), Doctype }

\* The errors the transport can emit, by their code.
TransportErrors == {"ECONNRESET", "ENOTFOUND"}

Pending == [state |-> "pending", value |-> Undefined]

\* resolve(v) and reject(e) of a promise: only a pending promise changes.
PromiseResolve(p, v) ==
  IF p.state = "pending" THEN [state |-> "fulfilled", value |-> v] ELSE p

\* A reject that overwrites a settled promise.
PromiseRejectUnguarded(p, e) == [state |-> "rejected", value |-> e]

PromiseReject(p, e) ==
  IF p.state = "pending" THEN [state |-> "rejected", value |-> e] ELSE p

SyntaxError(pos) == [t |-> "SyntaxError", at |-> pos - 1]
TransportError(code) == [t |-> "Error", code |-> code]
TimeoutError(ms) == [t |-> "TimeoutError", ms |-> ms]

\* A success test that leaves out 200 itself.
SuccessExclusive(statusCode) == statusCode > 200 /\ statusCode < 300

\* success: !(res.statusCode < 200 || res.statusCode >= 300)
Success(statusCode) == ~(statusCode < 200 \/ statusCode >= 300)

Envelope(res, data) ==
  [ t |-> "envelope",
    success |-> Success(res.statusCode),
    message |-> res.statusMessage,
    code |-> res.statusCode,
    data |-> data ]

\* A body text made of the last chunk only.
BodyTextLastChunk(body) == IF body = << >> THEN << >> ELSE body[Len(body)]

\* Buffer.concat(body).toString()
BodyText(body) == Flatten(body)


\* Both markers reported under the same title.
BodyWarningsSameTitle(text) ==
  IF StartsWith(text, Doctype) \/ StartsWith(text, Throttled)
  THEN _WARN_("Invalid request")
  ELSE << >>

\* The warning the 'end' handler emits for a body text, if any.
BodyWarnings(text) ==
  IF StartsWith(text, Doctype) THEN _WARN_("Invalid request")
  ELSE IF StartsWith(text, Throttled) THEN _WARN_("Throttled request")
  ELSE << >>

NewCall(c, op, input, sent, warns, options) ==
  [ client |-> c,
    op |-> op,
    input |-> input,
    sent |-> sent,
    options |-> options,
    res |-> NoResponse,
    body |-> << >>,
    wire |-> << >>,
    ended |-> FALSE,
    error |-> "none",
    timedOut |-> FALSE,
    aborted |-> FALSE,
    promise |-> Pending,
    trace |-> warns \o <<"request">> ]

\* An 'end' handler that rejects a response whose status is a failure.
OnEndRejectingFailure(call) ==
  LET text == BodyText(call.body)
      r == JSONParse(text)
      data == IF r.ok THEN r.v ELSE Str(text)
      p1 == IF r.ok /\ Success(call.res.statusCode) THEN call.promise
            ELSE IF r.ok
                 THEN PromiseReject(call.promise, TransportError("EHTTP"))
                 ELSE PromiseReject(call.promise, SyntaxError(r.pos))
  IN  [ call EXCEPT
          !.ended = TRUE,
          !.promise = PromiseResolve(p1, Envelope(call.res, data)),
          !.trace = call.trace \o BodyWarnings(text) \o <<"parse">>
                      \o (IF r.ok /\ Success(call.res.statusCode)
                          THEN << >> ELSE <<"reject">>)
                      \o <<"resolve">> ]

\* An 'end' handler whose catch block does not reject: the envelope is
\* resolved with the raw text.
OnEndResolvingRawText(call) ==
  LET text == BodyText(call.body)
      r == JSONParse(text)
      data == IF r.ok THEN r.v ELSE Str(text)
  IN  [ call EXCEPT
          !.ended = TRUE,
          !.promise = PromiseResolve(call.promise, Envelope(call.res, data)),
          !.trace = call.trace \o BodyWarnings(text) \o <<"parse", "resolve">> ]

\* An 'end' handler that drops the parsed value: data is the body text.
OnEndKeepingText(call) ==
  LET text == BodyText(call.body)
      r == JSONParse(text)
      p1 == IF r.ok THEN call.promise
            ELSE PromiseReject(call.promise, SyntaxError(r.pos))
  IN  [ call EXCEPT
          !.ended = TRUE,
          !.promise = PromiseResolve(p1, Envelope(call.res, Str(text))),
          !.trace = call.trace \o BodyWarnings(text) \o <<"parse">>
                      \o (IF r.ok THEN << >> ELSE <<"reject">>)
                      \o <<"resolve">> ]

\* The 'end' handler: warn, parse, reject on a parse error, then resolve.
OnEnd(call) ==
  LET text == BodyText(call.body)
      r == JSONParse(text)
      data == IF r.ok THEN r.v ELSE Str(text)
      p1 == IF r.ok THEN call.promise
            ELSE PromiseReject(call.promise, SyntaxError(r.pos))
  IN  [ call EXCEPT
          !.ended = TRUE,
          !.promise = PromiseResolve(p1, Envelope(call.res, data)),
          !.trace = call.trace \o BodyWarnings(text) \o <<"parse">>
                      \o (IF r.ok THEN << >> ELSE <<"reject">>)
                      \o <<"resolve">> ]

\* An 'error' listener that rejects with an error of its own.
OnErrorWrapped(call, e) ==
  [ call EXCEPT
      !.error = e,
      !.promise = PromiseReject(call.promise, TransportError("EREQUEST")),
      !.trace = call.trace \o <<"reject">> ]

\* An 'error' listener that issues the request again instead of rejecting.
OnErrorRetrying(call, e) ==
  [ call EXCEPT
      !.error = e,
      !.trace = call.trace \o <<"request">> ]

\* An 'error' listener that resolves with the error instead of rejecting.
OnErrorResolving(call, e) ==
  [ call EXCEPT
      !.error = e,
      !.promise = PromiseResolve(call.promise, TransportError(e)),
      !.trace = call.trace \o <<"resolve">> ]

\* An 'error' listener that only records the error.
OnErrorSwallowed(call, e) == [call EXCEPT !.error = e]

\* The 'error' listener: reject(error).
OnError(call, e) ==
  [ call EXCEPT
      !.error = e,
      !.promise = PromiseReject(call.promise, TransportError(e)),
      !.trace = call.trace \o <<"reject">> ]

\* A 'timeout' listener that rejects and leaves the request in flight.
OnTimeoutWithoutAbort(call, timeout) ==
  [ call EXCEPT
      !.timedOut = TRUE,
      !.promise = PromiseReject(call.promise, TimeoutError(timeout)),
      !.trace = call.trace \o <<"reject">> ]

\* The 'timeout' listener: req.abort(), then reject with the timeout error.
OnTimeout(call, timeout) ==
  [ call EXCEPT
      !.timedOut = TRUE,
      !.aborted = TRUE,
      !.promise = PromiseReject(call.promise, TimeoutError(timeout)),
      !.trace = call.trace \o <<"abort", "reject">> ]

(***************************************************************************)
(* Actions.                                                                *)
(* The transport is Node's https client.  Its events come in the order     *)
(* Node documents: the response callback once, then 'data' events, then    *)
(* 'end'; none of these after req.abort() or after the request emitted     *)
(* 'error'.  'error' and 'timeout' can come at any time, once each: an     *)
(* abort raises 'error' (socket hang up), and a socket can idle out after  *)
(* the response has ended.                                                 *)
(***************************************************************************)
\* An endpoint of client c is called with identifier id and argument arg.
\* It either throws, or hands its path and params to _request, which
\* builds the options and issues the request.
Invoke(c, op, id, id2, arg) ==
  LET f == Endpoint(op, id, id2, Deref(arg))
      sent == _insertApiKeyIntoParams(c, f.p)
  IN  CASE f.threw ->
           /\ thrown' = Append(thrown,
                           [ client |-> c, op |-> op,
                             input |-> [id |-> id, id2 |-> id2,
                                        arg |-> Deref(arg)],
                             trace |-> f.warns \o <<"throw">> ])
           /\ heap' = WriteBack(f.p)
           /\ UNCHANGED <<apiKey, TIMEOUT, calls>>
        [] ~f.threw /\ BuildThrows(c, f.p) ->
           /\ thrown' = Append(thrown,
                           [ client |-> c, op |-> op,
                             input |-> [id |-> id, id2 |-> id2,
                                        arg |-> Deref(arg)],
                             trace |-> f.warns \o <<"throw:URIError">> ])
           /\ heap' = WriteBack(sent)
           /\ UNCHANGED <<apiKey, TIMEOUT, calls>>
        [] OTHER ->
           /\ calls' = Append(calls,
                          NewCall(c, op,
                                  [id |-> id, id2 |-> id2, arg |-> Deref(arg)],
                                  sent, f.warns,
                                  _buildRequestOptions(c, OpPath(op, id, id2),
                                                       f.p)))
           /\ heap' = WriteBack(sent)
           /\ UNCHANGED <<apiKey, TIMEOUT, thrown>>

\* The response callback: the status line has arrived.
Response(i, res) ==
  /\ calls[i].res = NoResponse
  /\ calls[i].error = "none" /\ ~calls[i].aborted
  /\ calls' = [calls EXCEPT ![i].res = res]
  /\ UNCHANGED <<apiKey, TIMEOUT, heap, thrown>>

\* A 'data' listener that pushes onto one buffer shared by every call.
DataShared(i, chunk) ==
  /\ calls[i].res # NoResponse
  /\ ~calls[i].ended /\ calls[i].error = "none" /\ ~calls[i].aborted
  /\ Len(calls[i].body) < MaxChunks
  /\ calls' = [j \in DOMAIN calls |->
                IF j = i
                THEN [calls[j] EXCEPT !.body = Append(@, chunk),
                                      !.wire = @ \o chunk]
                ELSE [calls[j] EXCEPT !.body = Append(@, chunk)]]
  /\ UNCHANGED <<apiKey, TIMEOUT, heap, thrown>>

\* res.on('data'): body.push(chunk)
Data(i, chunk) ==
  /\ calls[i].res # NoResponse
  /\ ~calls[i].ended /\ calls[i].error = "none" /\ ~calls[i].aborted
  /\ Len(calls[i].body) < MaxChunks
  /\ calls' = [calls EXCEPT ![i].body = Append(@, chunk),
                            ![i].wire = @ \o chunk]
  /\ UNCHANGED <<apiKey, TIMEOUT, heap, thrown>>

\* An 'end' listener that builds the request options again, from the
\* mapping as it stands by then.
EndRebuilding(i) ==
  /\ calls[i].res # NoResponse
  /\ ~calls[i].ended /\ calls[i].error = "none" /\ ~calls[i].aborted
  /\ calls' = [calls EXCEPT ![i] =
                 [OnEnd(@) EXCEPT !.options =
                    _buildRequestOptions(calls[i].client,
                                         OpPath(calls[i].op, calls[i].input.id,
                                                calls[i].input.id2),
                                         Deref(Ref(1)))]]
  /\ UNCHANGED <<apiKey, TIMEOUT, heap, thrown>>

\* res.on('end')
End(i) ==
  /\ calls[i].res # NoResponse
  /\ ~calls[i].ended /\ calls[i].error = "none" /\ ~calls[i].aborted
  /\ calls' = [calls EXCEPT ![i] = OnEnd(@)]
  /\ UNCHANGED <<apiKey, TIMEOUT, heap, thrown>>

\* req.on('error')
Error(i, e) ==
  /\ calls[i].error = "none"
  /\ calls' = [calls EXCEPT ![i] = OnError(@, e)]
  /\ UNCHANGED <<apiKey, TIMEOUT, heap, thrown>>

\* req.on('timeout')
Timeout(i) ==
  /\ ~calls[i].timedOut
  /\ calls' = [calls EXCEPT ![i] = OnTimeout(@, TIMEOUT)]
  /\ UNCHANGED <<apiKey, TIMEOUT, heap, thrown>>

\* The caller assigns CoinGecko.TIMEOUT.
SetTimeout(ms) ==
  /\ TIMEOUT # ms
  /\ TIMEOUT' = ms
  /\ UNCHANGED <<apiKey, heap, calls, thrown>>

(***************************************************************************)
(* Specifications.                                                         *)
(* Spec follows one call through its whole life: the invocation and every  *)
(* transport event.  SpecBuild follows sequences of invocations, on both   *)
(* clients, that may share a parameter object.  SpecCatalog follows one    *)
(* invocation of any endpoint of the catalog on any of its inputs.         *)
(* SpecConcurrent follows several calls in flight at once, and SpecLive    *)
(* one call under a transport that is bound to deliver.                    *)
(***************************************************************************)
Init ==
  /\ apiKey \in {k \in [Clients -> {Null} \cup {Str(x) : x \in Keys}] :
                   k["free"] = Null /\ k["pro"] # Null}
  /\ TIMEOUT = DEFAULT_TIMEOUT
  /\ heap \in [ObjIds -> InitMappings]
  /\ calls = << >>
  /\ thrown = << >>

InitOne ==
  /\ Init
  /\ heap = [i \in ObjIds |-> << >>]

InitCatalog ==
  /\ apiKey \in {k \in [Clients -> {Null} \cup {Str(x) : x \in Keys}] :
                   k["free"] = Null /\ k["pro"] # Null}
  /\ TIMEOUT = DEFAULT_TIMEOUT
  /\ heap \in [ObjIds -> CatalogMappings]
  /\ calls = << >>
  /\ thrown = << >>

InvokeOne ==
  /\ calls = << >>
  /\ \E c \in Clients, op \in {"ping", "coins.all"} : Invoke(c, op, Undefined, Undefined, Undefined)

InvokeCatalog ==
  /\ calls = << >> /\ thrown = << >>
  /\ \E c \in Clients, op \in Catalog, id \in Identifiers,
        id2 \in Identifiers2, arg \in CatalogArgs :
       /\ TakesId(op) \/ id = Undefined
       /\ TakesId2(op) \/ id2 = Undefined
       /\ TakesParams(op) \/ arg = Undefined
       /\ Invoke(c, op, id, id2, arg)

InvokeAny ==
  /\ Len(calls) < MaxCalls
  /\ \E c \in Clients, op \in Ops, arg \in Args : Invoke(c, op, Undefined, Undefined, arg)

ResponseArrives == \E i \in DOMAIN calls, res \in Responses : Response(i, res)
DataArrives == \E i \in DOMAIN calls, chunk \in Chunks : Data(i, chunk)
ResponseEnds == \E i \in DOMAIN calls : End(i)
ErrorEmitted == \E i \in DOMAIN calls, e \in TransportErrors : Error(i, e)
TimeoutFires == \E i \in DOMAIN calls : Timeout(i)
TimeoutAssigned == \E ms \in Timeouts : SetTimeout(ms)

Next ==
  \/ InvokeOne
  \/ ResponseArrives
  \/ DataArrives
  \/ ResponseEnds
  \/ ErrorEmitted
  \/ TimeoutFires
  \/ TimeoutAssigned

Spec == InitOne /\ [][Next]_vars

NextBuild ==
  \/ InvokeAny
  \/ TimeoutAssigned

SpecBuild == Init /\ [][NextBuild]_vars

\* Several calls in flight at once, each with a small response: status
\* 200, chunks of one digit, one kind of transport error.
InvokeConcurrent ==
  /\ Len(calls) < MaxCalls
  /\ Invoke("free", "ping", Undefined, Undefined, Undefined)

ResponseOk ==
  \E i \in DOMAIN calls : Response(i, [statusCode |-> 200, statusMessage |-> "OK"])
DigitArrives == \E i \in DOMAIN calls : Data(i, <<"1">>)
ConnectionReset == \E i \in DOMAIN calls : Error(i, "ECONNRESET")

NextConcurrent ==
  \/ InvokeConcurrent
  \/ ResponseOk
  \/ DigitArrives
  \/ ResponseEnds
  \/ ConnectionReset
  \/ TimeoutFires

SpecConcurrent == InitOne /\ [][NextConcurrent]_vars

\* One call whose transport keeps its promise: as long as it has delivered
\* neither 'end' nor 'error' nor 'timeout' to the call, it will deliver
\* one of them.
Delivered(call) == call.ended \/ call.error # "none" \/ call.timedOut

FirstDelivery ==
  \E i \in DOMAIN calls :
    /\ ~Delivered(calls[i])
    /\ End(i) \/ (\E e \in TransportErrors : Error(i, e)) \/ Timeout(i)

NextLive ==
  \/ InvokeOne
  \/ ResponseOk
  \/ DigitArrives
  \/ ResponseEnds
  \/ ErrorEmitted
  \/ TimeoutFires

SpecLive == InitOne /\ [][NextLive]_vars /\ WF_vars(FirstDelivery)

NextCatalog ==
  \/ InvokeCatalog
  \/ TimeoutAssigned

SpecCatalog == InitCatalog /\ [][NextCatalog]_vars

(***************************************************************************)
(* One call of a normalizing endpoint on the caller's mapping, which the   *)
(* caller goes on writing to once the operation has returned, while the    *)
(* request is in flight and after it has settled.                          *)
(***************************************************************************)
MutateMappings ==
  { << >>,
    << [k |-> Ids, v |-> BothCoins] >>,
    << [k |-> VsCurrency, v |-> Str(Eur)], [k |-> Page, v |-> Num(2)] >> }

InitMutate ==
  /\ apiKey \in {k \in [Clients -> {Null} \cup {Str(x) : x \in Keys}] :
                   k["free"] = Null /\ k["pro"] # Null}
  /\ TIMEOUT = DEFAULT_TIMEOUT
  /\ heap \in [ObjIds -> MutateMappings]
  /\ calls = << >>
  /\ thrown = << >>

InvokeOnMapping ==
  /\ calls = << >>
  /\ \E c \in Clients, op \in {"coins.markets", "simple.price"} :
       Invoke(c, op, Undefined, Undefined, Ref(1))

\* The caller's own code, after the operation returned: params[k] = v
CallerWrites ==
  /\ calls # << >>
  /\ \E o \in ObjIds, k \in {VsCurrency, Ids, ApiKeyParam},
        v \in {Str(Eur), Str(Bitcoin)} :
       /\ heap' = [heap EXCEPT ![o] = Set(@, k, v)]
       /\ heap' # heap
  /\ UNCHANGED <<apiKey, TIMEOUT, calls, thrown>>

\* The caller's own code, after the operation returned: delete params[k]
CallerDeletes ==
  /\ calls # << >>
  /\ \E o \in ObjIds, k \in {VsCurrency, VsCurrencies, Ids, ApiKeyParam} :
       /\ HasKey(heap[o], k)
       /\ heap' = [heap EXCEPT ![o] = SelectSeq(@, LAMBDA e : e.k # k)]
  /\ UNCHANGED <<apiKey, TIMEOUT, calls, thrown>>

NextMutate ==
  \/ InvokeOnMapping
  \/ CallerWrites
  \/ CallerDeletes
  \/ ResponseOk
  \/ DigitArrives
  \/ ResponseEnds
  \/ TimeoutFires

SpecMutate == InitMutate /\ [][NextMutate]_vars

(***************************************************************************)
(* The same endpoint called twice by the same client on the same mapping:  *)
(* the second call gets the mapping as the first one left it.              *)
(***************************************************************************)
\* The identifier handed to an endpoint that takes one.
IdFor(op) == IF TakesId(op) THEN Str(Binance) ELSE Undefined

InvokeFirst ==
  /\ calls = << >> /\ thrown = << >>
  /\ \E c \in Clients, op \in {o \in Catalog : TakesParams(o)} :
       Invoke(c, op, IdFor(op), Undefined, Ref(1))

InvokeAgain ==
  /\ Len(calls) = 1
  /\ Invoke(calls[1].client, calls[1].op, calls[1].input.id,
            calls[1].input.id2, Ref(1))

NextTwice == InvokeFirst \/ InvokeAgain

SpecTwice == InitCatalog /\ [][NextTwice]_vars

(***************************************************************************)
(* What a server sees of a request: the query string of a path and its     *)
(* fields.                                                                 *)
(***************************************************************************)
QueryText(path) ==
  LET i == IndexOf(path, "?")
  IN  IF i = 0 THEN << >> ELSE SubSeq(path, i + 1, Len(path))

QueryFields(path) ==
  IF QueryText(path) = << >> THEN << >> ELSE Split(QueryText(path), "&")

FieldName(f) ==
  LET i == IndexOf(f, "=") IN IF i = 0 THEN f ELSE SubSeq(f, 1, i - 1)

\* The query string holds the field name=value.
QueryHolds(path, name, value) ==
  \E j \in DOMAIN QueryFields(path) :
    QueryFields(path)[j] = Escape(name) \o <<"=">> \o Escape(value)

\* The query string holds a field called name.
QueryNames(path, name) ==
  \E j \in DOMAIN QueryFields(path) :
    FieldName(QueryFields(path)[j]) = Escape(name)

\* How many entries of a trace are among labels.
Count(trace, labels) == Cardinality({j \in DOMAIN trace : trace[j] \in labels})

\* The first position of label in trace, or 0.
Position(trace, label) == IndexOf(trace, label)

Settled(call) == call.promise.state # "pending"
Fulfilled(call) == call.promise.state = "fulfilled"
Rejected(call) == call.promise.state = "rejected"

(***************************************************************************)
(* C1..C10                                                                 *)
(***************************************************************************)

\* C1: every request issued by a client constructed with a key targets the
\* paid hostname and carries x_cg_pro_api_key=<key> in its query string,
\* also for the endpoints that pass no parameter mapping (ping, global,
\* coins.list, exchanges.all).
C1_KeyedRequestsCarryKey ==
  \A i \in DOMAIN calls :
    _shouldCallPro(calls[i].client) =>
      /\ calls[i].options.host = PRO_HOST
      /\ QueryHolds(calls[i].options.path, ApiKeyParam, apiKey[calls[i].client].v)

\* C2: every request issued by a client constructed without a key targets
\* the public hostname and carries no x_cg_pro_api_key field, whatever
\* calls came before it and whatever parameter object they were given.
C2_KeylessRequestsCarryNoKey ==
  \A i \in DOMAIN calls :
    ~_shouldCallPro(calls[i].client) =>
      /\ calls[i].options.host = HOST
      /\ ~QueryNames(calls[i].options.path, ApiKeyParam)

\* C3: a promise that is settled never changes again, whatever transport
\* event or resolve/reject attempt follows.
C3_SettledOnce ==
  [][\A i \in DOMAIN calls :
       Settled(calls[i]) => calls'[i].promise = calls[i].promise]_vars

\* A settled call that has seen three resolve/reject attempts: its response
\* ended, its timeout fired and its request emitted an error.
C3_Witness ==
  \E i \in DOMAIN calls :
    /\ Settled(calls[i])
    /\ calls[i].ended /\ calls[i].timedOut /\ calls[i].error # "none"
    /\ Count(calls[i].trace, {"resolve", "reject"}) >= 3

Is2xx(statusCode) == 200 <= statusCode /\ statusCode < 300
WarnLabels == {"warn:Invalid request", "warn:Throttled request"}

\* C5 (as claimed): a completed response whose status is outside [200, 300)
\* resolves an envelope with success false, whatever its body.
C5_FailureStatusResolvesAnyBody ==
  \A i \in DOMAIN calls :
    (calls[i].ended /\ ~Is2xx(calls[i].res.statusCode)) =>
      (Fulfilled(calls[i]) /\ ~calls[i].promise.value.success)

\* C5 (amended): a completed response whose status is outside [200, 300)
\* and whose body is valid JSON resolves an envelope with success false.
C5_FailureStatusResolvesJsonBody ==
  \A i \in DOMAIN calls :
    (/\ calls[i].ended
     /\ ~Is2xx(calls[i].res.statusCode)
     /\ JSONParse(calls[i].wire).ok) =>
      (Fulfilled(calls[i]) /\ ~calls[i].promise.value.success)

\* A response with status 300 and a JSON body has ended.
C5_Witness ==
  \E i \in DOMAIN calls :
    /\ calls[i].ended
    /\ calls[i].res.statusCode = 300
    /\ calls[i].wire # << >>
    /\ JSONParse(calls[i].wire).ok
    /\ Fulfilled(calls[i])

\* C6: a completed response whose body is not valid JSON (the empty body
\* included), whatever its status, leaves the call rejected with the parse
\* error, and no envelope is resolved for it.
C6_InvalidJsonRejects ==
  \A i \in DOMAIN calls :
    (calls[i].ended /\ ~JSONParse(calls[i].wire).ok) =>
      /\ ~Fulfilled(calls[i])
      /\ calls[i].promise =
           [ state |-> "rejected",
             value |-> SyntaxError(JSONParse(calls[i].wire).pos) ]

\* An empty body under a failure status has ended and the call is rejected.
C6_Witness ==
  \E i \in DOMAIN calls :
    /\ calls[i].ended
    /\ ~Is2xx(calls[i].res.statusCode)
    /\ calls[i].wire = << >>
    /\ Rejected(calls[i])

\* C7: a response with status 200 whose chunks, in arrival order, make up
\* valid JSON resolves an envelope whose data is the value of that text,
\* however the text was split.
C7_DataIsParsedBody ==
  \A i \in DOMAIN calls :
    (/\ calls[i].ended
     /\ calls[i].res.statusCode = 200
     /\ JSONParse(calls[i].wire).ok) =>
      /\ Fulfilled(calls[i])
      /\ calls[i].promise.value.data = JSONParse(calls[i].wire).v

\* The array [1, 1] arrived in two chunks and was resolved.
C7_Witness ==
  \E i \in DOMAIN calls :
    /\ calls[i].ended
    /\ calls[i].res.statusCode = 200
    /\ Len(calls[i].body) = 2
    /\ Fulfilled(calls[i])
    /\ calls[i].promise.value.data = Arr(<<Num(1), Num(1)>>)

\* C8: when the timeout fires for a call that is not settled, the request
\* is aborted, then the call is rejected with the timeout error naming the
\* value of CoinGecko.TIMEOUT, and no envelope is resolved for it later.
C8_TimeoutAbortsThenRejects ==
  [][\A i \in DOMAIN calls :
       /\ (~Settled(calls[i]) /\ ~calls[i].timedOut /\ calls'[i].timedOut) =>
            /\ calls'[i].aborted
            /\ calls'[i].trace = calls[i].trace \o <<"abort", "reject">>
            /\ calls'[i].promise =
                 [state |-> "rejected", value |-> TimeoutError(TIMEOUT)]
       /\ calls[i].promise.value.t = "TimeoutError" =>
            (calls[i].aborted /\ ~Fulfilled(calls'[i]))]_vars

\* A call rejected by its timeout, under a reassigned CoinGecko.TIMEOUT,
\* whose request then emitted the error of the abort.
C8_Witness ==
  \E i \in DOMAIN calls :
    /\ calls[i].promise = [state |-> "rejected", value |-> TimeoutError(5000)]
    /\ calls[i].res # NoResponse
    /\ calls[i].error # "none"

\* C9: when the request emits an error for a call that is not settled, the
\* call is rejected with that error, and the call issues no other request.
C9_ErrorRejectsWithThatError ==
  [][\A i \in DOMAIN calls :
       /\ (~Settled(calls[i]) /\ calls[i].error = "none"
              /\ calls'[i].error # "none") =>
            /\ calls'[i].promise =
                 [state |-> "rejected", value |-> TransportError(calls'[i].error)]
            /\ Count(calls'[i].trace, {"request"}) = 1
       /\ calls[i].error # "none" =>
            (/\ Count(calls'[i].trace, {"request"}) = 1
             /\ Len(calls') = Len(calls))]_vars

\* A call rejected with the second of the two errors.
C9_Witness ==
  \E i \in DOMAIN calls :
    /\ calls[i].error = "ENOTFOUND"
    /\ calls[i].promise =
         [state |-> "rejected", value |-> TransportError("ENOTFOUND")]
    /\ calls[i].timedOut

\* C10: a completed response whose body starts with 'Throttled' or with
\* '<!DOCTYPE html>' emits exactly one warning, the one of its marker,
\* before the parse; the parse fails and the call is rejected with the
\* parse error.
C10_MarkerWarnsThenRejects ==
  \A i \in DOMAIN calls :
    LET call == calls[i]
        w == IF StartsWith(call.wire, Doctype)
             THEN "warn:Invalid request" ELSE "warn:Throttled request"
    IN  (/\ call.ended
         /\ StartsWith(call.wire, Doctype) \/ StartsWith(call.wire, Throttled)) =>
          /\ Count(call.trace, WarnLabels) = 1
          /\ Count(call.trace, {w}) = 1
          /\ Position(call.trace, w) < Position(call.trace, "parse")
          /\ ~JSONParse(call.wire).ok
          /\ call.promise =
               [ state |-> "rejected",
                 value |-> SyntaxError(JSONParse(call.wire).pos) ]

\* 'Throttled' arrived in two chunks under status 200.
C10_Witness ==
  \E i \in DOMAIN calls :
    /\ calls[i].ended
    /\ calls[i].wire = Throttled
    /\ Len(calls[i].body) = 2
    /\ Rejected(calls[i])

(***************************************************************************)
(* C11..C20                                                                *)
(***************************************************************************)
Keyless(call) == ~_shouldCallPro(call.client)
HasQuestionMark(text) == IndexOf(text, "?") # 0

\* An identifier whose text holds none of the characters that delimit a
\* path or a query.
UrlSafe(id) ==
  \A j \in DOMAIN ToText(id) : ToText(id)[j] \notin {"?", "/", "&", "=", "#"}

\* The endpoints whose path holds an identifier.
TakesIdentifier(op) == TakesId(op)

\* C11: for every operation that passes no parameter mapping to _request,
\* on a client without a key, the path is exactly /api/v3 followed by the
\* operation's relative path (/api/v3/ping for ping), with no '?' and no
\* query string.  Identifiers are URL-safe, as the endpoints require of
\* their callers; one that is not is still copied into the path as it is.
C11_NoMappingNoQuery ==
  \A i \in DOMAIN calls :
    (calls[i].op \in NoParamOps \cup IdOps /\ Keyless(calls[i])) =>
      /\ calls[i].options.path
           = VersionPrefix \o OpPath(calls[i].op, calls[i].input.id,
                                      calls[i].input.id2)
      /\ calls[i].op = "ping" => calls[i].options.path = <<"/","a","p","i","/","v","3","/","p","i","n","g">>
      /\ (calls[i].op \in IdOps => UrlSafe(calls[i].input.id)) =>
           /\ ~HasQuestionMark(calls[i].options.path)
           /\ QueryText(calls[i].options.path) = << >>

\* ping() on the keyless client has issued its request.
C11_Witness ==
  \E i \in DOMAIN calls :
    /\ calls[i].op = "ping" /\ Keyless(calls[i])
    /\ calls[i].options.path = <<"/","a","p","i","/","v","3","/","p","i","n","g">>

\* C12: whenever the mapping handed to the builder is empty after key
\* injection (coins.all(), indexes.all(), assetPlatforms.all() with no
\* argument on a client without a key), the path holds no '?' at all.
C12_EmptyMappingNoQuestionMark ==
  \A i \in DOMAIN calls :
    (isObject(calls[i].sent) /\ calls[i].sent.m = << >>) =>
      ~HasQuestionMark(calls[i].options.path)

\* The list-coercible fields, by endpoint.
ListFields ==
  { <<"coins.markets", Ids>>,
    <<"coins.fetchTickers", ExchangeIds>>,
    <<"exchanges.fetchTickers", CoinIds>>,
    <<"simple.price", Ids>>,
    <<"simple.price", VsCurrencies>>,
    <<"simple.fetchTokenPrice", ContractAddresses>>,
    <<"simple.fetchTokenPrice", VsCurrencies>> }

\* The caller gave the call a mapping whose field k is a list.
GivenList(call, k) ==
  /\ isObject(call.input.arg)
  /\ isArray(Get(call.input.arg.m, k))

\* The elements of a list of strings, joined with ',' in their order.
CommaJoined(a) == Join([j \in DOMAIN a.v |-> a.v[j].v], <<",">>)

\* The query string of the call holds k exactly once, with this value.
TransmitsOnce(call, k, value) ==
  /\ QueryHolds(call.options.path, k, value)
  /\ Cardinality({j \in DOMAIN QueryFields(call.options.path) :
                    FieldName(QueryFields(call.options.path)[j]) = Escape(k)}) = 1

NoCurrency(v) ==
  CASE v.t = "str" -> \A j \in DOMAIN v.v : v.v[j] = " "
    [] v.t = "arr" -> v.v = << >>
    [] OTHER -> TRUE

\* C14: simple.price with ids given as a list and vs_currencies absent,
\* empty, blank, not a string or an empty list transmits vs_currencies=usd
\* and ids as the comma-joined list; ids comes before vs_currencies when
\* the mapping held only ids (ids: [btc] gives ids=btc&vs_currencies=usd).
C14_SimplePriceDefaultsToUsd ==
  \A i \in DOMAIN calls :
    (/\ calls[i].op = "simple.price" /\ GivenList(calls[i], Ids)
     /\ NoCurrency(Get(calls[i].input.arg.m, VsCurrencies))) =>
      LET given == calls[i].input.arg.m
          fields == QueryFields(calls[i].options.path)
          ids == Escape(Ids) \o <<"=">> \o Escape(CommaJoined(Get(given, Ids)))
      IN  /\ TransmitsOnce(calls[i], VsCurrencies, Usd)
          /\ TransmitsOnce(calls[i], Ids, CommaJoined(Get(given, Ids)))
          /\ Len(given) = 1 =>
               /\ fields[1] = ids
               /\ fields[2] = <<"v","s","_","c","u","r","r","e","n","c","i","e","s","=","u","s","d">>
               /\ Keyless(calls[i]) => Len(fields) = 2

\* simple.price({ids: [btc]}) on the keyless client has issued its request.
C14_Witness ==
  \E i \in DOMAIN calls :
    /\ calls[i].op = "simple.price" /\ Keyless(calls[i])
    /\ calls[i].input.arg = Obj(1, << [k |-> Ids, v |-> Arr(<<Str(Bitcoin)>>)] >>)
    /\ QueryText(calls[i].options.path) = <<"i","d","s","=","b","t","c","&","v","s","_","c","u","r","r","e","n","c","i","e","s","=","u","s","d">>

ValidationLabels == {"warn:Invalid parameter", "warn:Missing parameter"}

\* C15: every input that raises a validation warning (a missing, empty or
\* wrong-typed identifier; a params that is not an object, such as null
\* or a string; a missing required field) has the warning logged and the
\* call still issues its request and returns its promise: no endpoint
\* call throws or stops before the request.
C15_ValidationNeverStopsTheCall ==
  /\ \A i \in DOMAIN thrown :
       Count(thrown[i].trace, ValidationLabels) = 0
  /\ \A i \in DOMAIN calls :
       Count(calls[i].trace, ValidationLabels) > 0 =>
         /\ Count(calls[i].trace, {"request"}) = 1
         /\ calls[i].promise = Pending

\* The resolve and reject attempts of a call, in the order they were made.
Attempts(call) == SelectSeq(call.trace, LAMBDA l : l \in {"resolve", "reject"})

\* C16: every call issues exactly one GET request over its whole life:
\* after a transport error, a timeout, a parse failure or a non-2xx status
\* no further request is issued for it, and the call settles by its first
\* resolve or reject alone, so each failure reaches the caller once.
C16_OneRequestNoRetry ==
  \A i \in DOMAIN calls :
    /\ Count(calls[i].trace, {"request"}) = 1
    /\ calls[i].options.method = "GET"
    /\ Settled(calls[i]) <=> Attempts(calls[i]) # << >>
    /\ Rejected(calls[i]) <=>
         (Attempts(calls[i]) # << >> /\ Attempts(calls[i])[1] = "reject")

\* A call that failed three times over: a body that does not parse under a
\* non-2xx status, then a timeout, then a transport error.
C16_Witness ==
  \E i \in DOMAIN calls :
    /\ calls[i].ended /\ ~Is2xx(calls[i].res.statusCode)
    /\ calls[i].timedOut /\ calls[i].error # "none"
    /\ Count(calls[i].trace, {"reject"}) = 3
    /\ Count(calls[i].trace, {"request"}) = 1

\* C17: every RequestOptions built has method GET, port 443 and a path
\* that begins with /api/v3/, and its host is the paid hostname exactly
\* when the client was constructed with a key.
C17_RequestOptionsShape ==
  \A i \in DOMAIN calls :
    /\ calls[i].options.method = "GET"
    /\ calls[i].options.port = 443
    /\ StartsWith(calls[i].options.path, <<"/","a","p","i","/","v","3","/">>)
    /\ calls[i].options.host \in {HOST, PRO_HOST}
    /\ calls[i].options.host = PRO_HOST <=> apiKey[calls[i].client] # Null

\* A keyed client has built the options of a request that carries params.
C17_Witness ==
  \E i \in DOMAIN calls :
    /\ apiKey[calls[i].client] = Str(Key1)
    /\ calls[i].options.host = <<"p","r","o","-","a","p","i",".","c","o","i","n","g","e","c","k","o",".","c","o","m">>
    /\ calls[i].op = "simple.price"
    /\ isObject(calls[i].sent)

\* A step alters at most one call.
AltersOneCall ==
  \A i, j \in DOMAIN calls :
    (i # j /\ calls'[i] # calls[i]) => calls'[j] = calls[j]

\* The outcome of a call as its own events determine it.
OwnOutcome(call) ==
  /\ Settled(call) <=> Delivered(call)
  /\ Fulfilled(call) =>
       /\ call.ended
       /\ call.promise.value = Envelope(call.res, JSONParse(call.wire).v)
  /\ Rejected(call) =>
       \/ /\ call.promise.value.t = "TimeoutError" /\ call.timedOut
       \/ /\ call.promise.value.t = "Error"
           /\ call.promise.value.code = call.error
       \/ /\ call.promise.value.t = "SyntaxError"
           /\ call.ended /\ ~JSONParse(call.wire).ok

\* C18: with any number of calls in flight at once and any interleaving
\* of their events, the outcome of each call depends on its own events
\* only: its data is parsed from its own chunks, and an event of one
\* call, a failure or timeout included, never settles or alters another.
C18_CallsAreIndependent ==
  /\ [](\A i \in DOMAIN calls : OwnOutcome(calls[i]))
  /\ [][AltersOneCall]_vars

\* Two calls that were in flight together: one resolved with the number
\* made of its two chunks, the other timed out after one chunk.
C18_Witness ==
  \E i, j \in DOMAIN calls :
    /\ i # j
    /\ Fulfilled(calls[i]) /\ calls[i].promise.value.data = Num(11)
    /\ Rejected(calls[j]) /\ calls[j].promise.value.t = "TimeoutError"
    /\ calls[j].wire = <<"1">>

\* C19: every call eventually settles, given that the transport eventually
\* delivers end, error or timeout for its request.
C19_EveryCallSettles ==
  \A i \in 1..MaxCalls :
    (i \in DOMAIN calls) ~> (i \in DOMAIN calls /\ Settled(calls[i]))

\* A call settled by the only event it got: a timeout before any response.
C19_Witness ==
  \E i \in DOMAIN calls :
    /\ Settled(calls[i])
    /\ calls[i].res = NoResponse /\ calls[i].error = "none"

Outcome(call) == <<call.promise.state, call.promise.value.t>>

\* C20 (as claimed): every call that has terminated is in exactly one of
\* three outcomes: resolved with an envelope, rejected with a transport
\* error, rejected with a timeout error.
C20_ThreeOutcomes ==
  \A i \in DOMAIN calls :
    Settled(calls[i]) =>
      Outcome(calls[i]) \in { <<"fulfilled", "envelope">>,
                              <<"rejected", "Error">>,
                              <<"rejected", "TimeoutError">> }

\* C20 (amended): every call that has terminated is in exactly one of four
\* outcomes: resolved with an envelope, rejected with a transport error,
\* rejected with a timeout error, rejected with the parse error of its
\* body.
C20_FourOutcomes ==
  \A i \in DOMAIN calls :
    Settled(calls[i]) =>
      Outcome(calls[i]) \in { <<"fulfilled", "envelope">>,
                              <<"rejected", "Error">>,
                              <<"rejected", "TimeoutError">>,
                              <<"rejected", "SyntaxError">> }

\* A call rejected with the parse error of a body under status 200.
C20_Witness ==
  \E i \in DOMAIN calls :
    /\ Outcome(calls[i]) = <<"rejected", "SyntaxError">>
    /\ calls[i].res.statusCode = 200
    /\ calls[i].wire # << >>

(***************************************************************************)
(* C21..C30                                                                *)
(***************************************************************************)

\* C21 (as claimed): the data of the envelope returned for a completed
\* response is the parsed JSON value of the body, or the raw body text
\* when the parse fails.
C21_DataParsedOrRawText ==
  \A i \in DOMAIN calls :
    calls[i].ended =>
      /\ Fulfilled(calls[i])
      /\ calls[i].promise.value.data =
           (IF JSONParse(calls[i].wire).ok
            THEN JSONParse(calls[i].wire).v
            ELSE Str(calls[i].wire))

\* C21 (amended): the data of every envelope returned to the caller is the
\* parsed JSON value of the body, under any status; when the parse fails
\* no envelope is returned: the envelope holding the raw text is offered
\* to a promise that is already rejected, and is dropped.
C21_DataIsParsedValueOnly ==
  \A i \in DOMAIN calls :
    /\ Fulfilled(calls[i]) =>
         /\ calls[i].ended /\ JSONParse(calls[i].wire).ok
         /\ calls[i].promise.value.data = JSONParse(calls[i].wire).v
         /\ calls[i].promise.value.data.t # "str"
    /\ (calls[i].ended /\ ~JSONParse(calls[i].wire).ok) =>
         /\ Rejected(calls[i])
         /\ Position(calls[i].trace, "reject") < Position(calls[i].trace, "resolve")

\* A body that is not JSON has ended: the call is rejected, and the resolve
\* that carried the raw text came after the reject.
C21_Witness ==
  \E i \in DOMAIN calls :
    /\ calls[i].ended /\ calls[i].wire = <<"[">>
    /\ Rejected(calls[i])
    /\ Count(calls[i].trace, {"resolve"}) = 1

\* The currency fields, by endpoint.
CurrencyFields ==
  { <<"coins.markets", VsCurrency>>,
    <<"coins.fetchMarketChart", VsCurrency>>,
    <<"coins.fetchMarketChartRange", VsCurrency>>,
    <<"coins.fetchCoinContractMarketChart", VsCurrency>>,
    <<"coins.fetchCoinContractMarketChartRange", VsCurrency>>,
    <<"simple.price", VsCurrencies>>,
    <<"simple.fetchTokenPrice", VsCurrencies>> }

\* The identifiers of the call are URL-safe.
SafeIdentifiers(call) ==
  /\ TakesId(call.op) => UrlSafe(call.input.id)
  /\ TakesId2(call.op) => UrlSafe(call.input.id2)

\* The call was given no params, or a mapping.
GivenMapping(call) == call.input.arg.t \in {"undefined", "obj"}

\* The value the caller gave for field k: undefined when there is none.
Given(call, k) == Prop(call.input.arg, k)

\* An empty string, in the sense of isStringEmpty: nothing but blanks.
EmptyString(v) == v.t = "str" /\ \A j \in DOMAIN v.v : v.v[j] = " "
NonEmptyString(v) == v.t = "str" /\ ~EmptyString(v)

\* The call transmits usd for an absent or empty field k, and the caller's
\* own non-empty string unchanged.
CurrencyDefaulted(call, k) ==
  /\ (Given(call, k).t = "undefined" \/ EmptyString(Given(call, k))) =>
       TransmitsOnce(call, k, Usd)
  /\ NonEmptyString(Given(call, k)) => TransmitsOnce(call, k, Given(call, k).v)

\* C22 (as claimed): for every endpoint that accepts a currency parameter
\* (vs_currency in coins.markets and the four market chart endpoints,
\* vs_currencies in simple.price and simple.fetchTokenPrice), an absent or
\* empty parameter is transmitted as usd and a non-empty string unchanged.
C22_CurrencyDefaultsToUsd ==
  \A i \in DOMAIN calls : \A cf \in CurrencyFields :
    (/\ calls[i].op = cf[1]
     /\ GivenMapping(calls[i]) /\ SafeIdentifiers(calls[i])) =>
      CurrencyDefaulted(calls[i], cf[2])

\* C22 (amended): the same for every currency parameter but the
\* vs_currencies of simple.fetchTokenPrice, which has no default: when it
\* is absent or the empty string, a 'Missing parameter' warning is logged
\* and the field is transmitted as it was given (not at all, or empty); a
\* non-empty string is transmitted unchanged there too.
C22_CurrencyDefaultsButTokenPrice ==
  \A i \in DOMAIN calls : \A cf \in CurrencyFields :
    (/\ calls[i].op = cf[1]
     /\ GivenMapping(calls[i]) /\ SafeIdentifiers(calls[i])) =>
      IF cf[1] # "simple.fetchTokenPrice"
      THEN CurrencyDefaulted(calls[i], cf[2])
      ELSE LET v == Given(calls[i], cf[2])
           IN  /\ v.t = "undefined" =>
                    /\ ~QueryNames(calls[i].options.path, cf[2])
                    /\ Count(calls[i].trace, {"warn:Missing parameter"}) > 0
               /\ v = Str(<< >>) =>
                    /\ TransmitsOnce(calls[i], cf[2], << >>)
                    /\ Count(calls[i].trace, {"warn:Missing parameter"}) > 0
               /\ v.t = "str" => TransmitsOnce(calls[i], cf[2], v.v)

\* coins.fetchCoinContractMarketChart was given an empty vs_currency and
\* has sent usd.
C22_Witness ==
  \E i \in DOMAIN calls :
    /\ calls[i].op = "coins.fetchCoinContractMarketChart"
    /\ Given(calls[i], VsCurrency) = Str(<< >>)
    /\ Keyless(calls[i]) /\ SafeIdentifiers(calls[i])
    /\ QueryHolds(calls[i].options.path, VsCurrency, Usd)

\* The market chart endpoints that document days.
DaysOps == {"coins.fetchMarketChart", "coins.fetchCoinContractMarketChart"}

\* C23: coins.fetchMarketChart and coins.fetchCoinContractMarketChart
\* transmit days as 1 exactly when the caller left it unset (undefined or
\* null); any value the caller set, 0 and 'max' included, is transmitted
\* unchanged.
C23_DaysDefaultsOnlyWhenUnset ==
  \A i \in DOMAIN calls :
    (/\ calls[i].op \in DaysOps
     /\ GivenMapping(calls[i]) /\ SafeIdentifiers(calls[i])) =>
      LET v == Given(calls[i], Days)
      IN  IF v.t \in {"undefined", "null"}
          THEN /\ Prop(calls[i].sent, Days) = Num(1)
               /\ TransmitsOnce(calls[i], Days, <<"1">>)
          ELSE /\ Prop(calls[i].sent, Days) = v
               /\ v.t \in {"str", "num"} =>
                    TransmitsOnce(calls[i], Days, ToText(v))

\* coins.fetchCoinContractMarketChart was called with days 0, which went
\* out as 0.
C23_Witness ==
  \E i \in DOMAIN calls :
    /\ calls[i].op \in DaysOps /\ SafeIdentifiers(calls[i])
    /\ calls[i].op = "coins.fetchCoinContractMarketChart"
    /\ Given(calls[i], Days) = Num(0)
    /\ QueryHolds(calls[i].options.path, Days, <<"0">>)

\* An identifier that passes the endpoint's check.
ValidIdentifier(id) == isString(id) /\ ~isStringEmpty(id)

\* C24: coins.fetchCoinContractMarketChartRange normalizes its mapping
\* exactly as coins.fetchMarketChartRange does: it defaults vs_currency,
\* warns when from or to is not a number, and adds no parameter other than
\* vs_currency (and the key); the two differ only in their path.
C24_ContractRangeNormalizesAsRange ==
  \A i \in DOMAIN calls :
    (/\ calls[i].op = "coins.fetchCoinContractMarketChartRange"
     /\ GivenMapping(calls[i])
     /\ ValidIdentifier(calls[i].input.id)
     /\ ValidIdentifier(DefaultPlatform(calls[i].input.id2))) =>
      LET g == coins_fetchMarketChartRange(calls[i].input.id,
                                           calls[i].input.arg)
      IN  /\ calls[i].sent = _insertApiKeyIntoParams(calls[i].client, g.p)
          /\ SubSeq(calls[i].trace, 1, Len(g.warns) + 1)
               = g.warns \o <<"request">>

\* C25: the request builder raises no error for any input, and a params
\* that is not an object (absent, null, a string, a number) is treated as
\* absent: the path is '/api/v3' and the relative path, with no '?'.
C25_BuilderNeverRaises ==
  /\ \A i \in DOMAIN thrown :
       Count(thrown[i].trace, {"throw:URIError"}) = 0
  /\ \A i \in DOMAIN calls :
       ~isObject(calls[i].sent) =>
         /\ calls[i].options.path
              = VersionPrefix \o OpPath(calls[i].op, calls[i].input.id,
                                        calls[i].input.id2)
         /\ SafeIdentifiers(calls[i]) =>
              ~HasQuestionMark(calls[i].options.path)

\* The half of C25 that holds: a params that is not an object is treated
\* as absent.
NonObjectParamsAreAbsent ==
  \A i \in DOMAIN calls :
    ~isObject(calls[i].sent) =>
      /\ calls[i].options.path
           = VersionPrefix \o OpPath(calls[i].op, calls[i].input.id,
                                     calls[i].input.id2)
      /\ SafeIdentifiers(calls[i]) => ~HasQuestionMark(calls[i].options.path)

\* A number was handed to an endpoint as its params and the request went
\* out with no query.
NonObjectParamsWitness ==
  \E i \in DOMAIN calls :
    /\ calls[i].sent = Num(5) /\ SafeIdentifiers(calls[i])
    /\ ~HasQuestionMark(calls[i].options.path)

\* The entry k went from value v to value w by one of the three changes a
\* call of client c may make: a default (on a field that was not a
\* non-empty string, or days that was unset), a list replaced by its
\* comma-joined string, or the key of a client that has one.
AllowedChange(c, k, v, w) ==
  \/ k \in {VsCurrency, VsCurrencies} /\ ~NonEmptyString(v) /\ w = Str(Usd)
  \/ k = Days /\ v.t \in {"undefined", "null"} /\ w = Num(1)
  \/ isArray(v) /\ w = Str(CommaJoined(v))
  \/ k = ApiKeyParam /\ _shouldCallPro(c) /\ w = apiKey[c]

\* The mapping went from m to n by such changes only: no entry is removed
\* or moved, an entry that changed changed that way, and so did every
\* entry that was added.
AllowedMutation(c, m, n) ==
  /\ Len(n) >= Len(m)
  /\ \A j \in DOMAIN m :
       /\ n[j].k = m[j].k
       /\ n[j].v = m[j].v \/ AllowedChange(c, m[j].k, m[j].v, n[j].v)
  /\ \A j \in (Len(m) + 1)..Len(n) :
       AllowedChange(c, n[j].k, Undefined, n[j].v)

\* The client of the call this step has made.
Caller ==
  IF calls' # calls THEN calls'[Len(calls')].client
  ELSE thrown'[Len(thrown')].client

\* C26: a call changes the caller's mapping in place in three ways only: a
\* defaulted field is set (vs_currency or vs_currencies to usd, days to
\* 1), a list is replaced by its comma-joined string, and
\* x_cg_pro_api_key is added when the client has a key.  Every other
\* entry is as it was, and a client without a key adds or removes no
\* x_cg_pro_api_key entry.
C26_MappingChangesInThreeWays ==
  [][\A o \in ObjIds :
       heap'[o] # heap[o] =>
         /\ AllowedMutation(Caller, heap[o], heap'[o])
         /\ ~_shouldCallPro(Caller) =>
              Get(heap'[o], ApiKeyParam) = Get(heap[o], ApiKeyParam)]_vars

\* simple.price({ids: [btc]}) on the client with a key has left the
\* caller's mapping with ids joined, vs_currencies defaulted and the key
\* added.
C26_Witness ==
  \E i \in DOMAIN calls :
    /\ calls[i].op = "simple.price" /\ ~Keyless(calls[i])
    /\ calls[i].input.arg = Obj(1, << [k |-> Ids, v |-> Arr(<<Str(Bitcoin)>>)] >>)
    /\ heap[1] = << [k |-> Ids, v |-> Str(Bitcoin)],
                    [k |-> VsCurrencies, v |-> Str(Usd)],
                    [k |-> ApiKeyParam, v |-> apiKey[calls[i].client]] >>

\* The text t occurs in s, character for character.
IsInfix(t, s) ==
  \E j \in 0..(Len(s) - Len(t)) : SubSeq(s, j + 1, j + Len(t)) = t

\* The characters that end a path segment, start a query or split one.
PathSpecials == {"?", "/", "&"}

\* The string form of an identifier: a string is itself, anything else is
\* named as JavaScript names it.
StringForm(id) ==
  IF id.t = "str" THEN id.v ELSE <<"u","n","d","e","f","i","n","e","d">>

\* The identifiers the call's path template interpolates, in the string
\* form a template literal gives them; an asset platform left out is
\* ethereum.
IdentifierTexts(call) ==
  LET platformFirst == call.op = "simple.fetchTokenPrice"
      first == IF platformFirst /\ call.input.id = Undefined
               THEN EthereumPlatform ELSE StringForm(call.input.id)
      second == IF call.op \in ContractChartOps
                              \cup {"coins.fetchCoinContractInfo"}
                   /\ call.input.id2 = Undefined
                THEN EthereumPlatform ELSE StringForm(call.input.id2)
  IN  IF TakesId2(call.op) THEN <<first, second>> ELSE <<first>>

\* The part of the request path that the endpoint built: the path without
\* the query the builder appended.
EndpointPath(call) ==
  LET q == IF isObject(call.sent)
           THEN <<"?">> \o Stringify(call.sent.m) ELSE << >>
  IN  SubSeq(call.options.path, 1, Len(call.options.path) - Len(q))

\* The number of special characters in the texts.
RECURSIVE SpecialsIn(_)
SpecialsIn(texts) ==
  IF texts = << >> THEN 0
  ELSE Count(Head(texts), PathSpecials) + SpecialsIn(Tail(texts))

\* C27: for every endpoint that takes an identifier (coinId, exchangeId,
\* marketId, indexId, contractAddress, assetPlatform) the path is the
\* version prefix and the template with each identifier copied in
\* verbatim, with no escaping; an invalid identifier (missing, empty) is
\* still copied in, in its string form; and an identifier holding '?',
\* '/' or '&' changes the path or the query: each such character is in
\* the path as it is, where a '?' starts the query early.
C27_IdentifiersAreVerbatim ==
  \A i \in DOMAIN calls :
    TakesId(calls[i].op) =>
      LET built == EndpointPath(calls[i])
          texts == IdentifierTexts(calls[i])
          plain == VersionPrefix \o OpPath(calls[i].op, Str(Binance), Str(Binance))
      IN  /\ built = VersionPrefix \o OpPath(calls[i].op, calls[i].input.id,
                                               calls[i].input.id2)
          /\ \A j \in DOMAIN texts : IsInfix(texts[j], built)
          /\ Count(built, PathSpecials)
               = Count(plain, PathSpecials) + SpecialsIn(texts)
          /\ Count(built, {"%"}) = 0
          /\ (\E j \in DOMAIN texts : Count(texts[j], {"?"}) > 0) =>
               /\ IndexOf(calls[i].options.path, "?") <= Len(built)
               /\ IndexOf(calls[i].options.path, "?") > 0

\* indexes.fetch('a?b', 'a&b') has issued its request: the path is
\* /api/v3/indexes/a?b/a&b, whose query is b/a&b.
C27_Witness ==
  \E i \in DOMAIN calls :
    /\ calls[i].op = "indexes.fetch"
    /\ calls[i].input.id = Str(<<"a","?","b">>)
    /\ calls[i].input.id2 = Str(<<"a","&","b">>)
    /\ calls[i].options.path
         = <<"/","a","p","i","/","v","3","/","i","n","d","e","x","e","s","/","a","?","b","/","a","&","b">>
    /\ QueryFields(calls[i].options.path) = << <<"b","/","a">>, <<"b">> >>

\* C28: for every interleaving of calls with reassignments of
\* CoinGecko.TIMEOUT, the timeout named in the message of a call's timeout
\* rejection is the timeout placed in that call's RequestOptions.
C28_MessageNamesTheCallsTimeout ==
  \A i \in DOMAIN calls :
    calls[i].promise.value.t = "TimeoutError" =>
      calls[i].promise.value.ms = calls[i].options.timeout

\* The request of the call is the one built from the mapping as the call
\* left it at invocation, and its envelope is made of its own response.
BuiltAtInvocation(call) ==
  /\ call.options.host = (IF Keyless(call) THEN HOST ELSE PRO_HOST)
  /\ call.options.path
       = VersionPrefix \o OpPath(call.op, call.input.id, call.input.id2)
           \o <<"?">> \o Stringify(call.sent.m)
  /\ Fulfilled(call) =>
       call.promise.value = Envelope(call.res, JSONParse(call.wire).v)

\* C29: the request a call transmits (host, path, query) is fully
\* determined at invocation: a change the caller makes to the mapping
\* after the operation returned changes neither the request nor the
\* envelope.
C29_RequestFixedAtInvocation ==
  /\ [](\A i \in DOMAIN calls : BuiltAtInvocation(calls[i]))
  /\ [][\A i \in DOMAIN calls :
          /\ calls'[i].options = calls[i].options
          /\ heap' # heap => calls'[i] = calls[i]]_vars

\* coins.markets on an empty mapping was resolved with 11 after the caller
\* set vs_currency to eur in the mapping: the request still says usd.
C29_Witness ==
  \E i \in DOMAIN calls :
    /\ calls[i].op = "coins.markets"
    /\ calls[i].input.arg = Obj(1, << >>)
    /\ Get(heap[1], VsCurrency) = Str(Eur)
    /\ QueryHolds(calls[i].options.path, VsCurrency, Usd)
    /\ Fulfilled(calls[i]) /\ calls[i].promise.value.data = Num(11)

\* C30: normalization is idempotent across calls: when the same endpoint
\* is called a second time by the same client with the mapping the first
\* call left, the second call issues the same host, path and query as the
\* first and leaves the mapping as it found it.
C30_SecondCallIsTheSame ==
  [][(Len(calls) = 1 /\ Len(calls') = 2) =>
       /\ heap' = heap
       /\ calls'[2].options.host = calls[1].options.host
       /\ calls'[2].options.path = calls[1].options.path
       /\ calls'[2].sent = calls[1].sent]_vars

\* simple.price was called twice by the client with a key on
\* {ids: [btc, eth], vs_currencies: []}: both requests carry the joined
\* ids, usd and the key.
C30_Witness ==
  /\ Len(calls) = 2
  /\ calls[1].op = "simple.price" /\ ~Keyless(calls[1])
  /\ calls[1].input.arg
       = Obj(1, << [k |-> Ids, v |-> BothCoins],
                   [k |-> VsCurrencies, v |-> Arr(<< >>)] >>)
  /\ calls[2].input.arg = calls[1].sent
  /\ QueryHolds(calls[2].options.path, VsCurrencies, Usd)
  /\ QueryHolds(calls[2].options.path, Ids, <<"b","t","c",",","e","t","h">>)
  /\ QueryNames(calls[2].options.path, ApiKeyParam)
====
